---------------------------- MODULE Spec2Model ----------------------------
(***************************************************************************)
(* Model of main.py: the URL normaliser _abs_url, the dataset locator      *)
(* _find_csv_path, the cached loader load_movies and the render pass main. *)
(*                                                                         *)
(* Text is modelled as a sequence of one-character strings, so that the    *)
(* prefix tests, strip/rstrip/lstrip, lower and sorted() of the source are *)
(* computed character by character.                                        *)
(***************************************************************************)
EXTENDS Integers, Sequences, FiniteSets, TLC

(***************************************************************************)
(* Bounds of the model.                                                    *)
(***************************************************************************)
\* number of text fragments an input of _abs_url is put together from
MaxFrags == 3
\* rows of an input table in the loader specification
MaxRows == 3
\* refresh clicks of one session
MaxRefresh == 2

(***************************************************************************)
(* Characters and Python's string methods.                                 *)
(***************************************************************************)
\* the characters the model uses, in code-point order (str comparison)
Ascii ==
    << " ", ".", "/", ":", "A", "B", "C", "H", "M", "N", "P", "T", "_",
       "a", "b", "c", "d", "e", "f", "g", "h", "i", "k", "l", "m", "n",
       "o", "p", "r", "s", "t", "u", "v", "x", "z" >>

Ord(c) == CHOOSE i \in 1..Len(Ascii) : Ascii[i] = c

\* str.isspace for one character
IsSpace(c) == c = " "

\* str.lower for one character
LowerChar(c) ==
    CASE c = "A" -> "a" [] c = "B" -> "b" [] c = "C" -> "c" [] c = "H" -> "h"
      [] c = "M" -> "m" [] c = "N" -> "n" [] c = "P" -> "p" [] c = "T" -> "t"
      [] OTHER -> c

Lower(s) == [i \in 1..Len(s) |-> LowerChar(s[i])]

StartsWith(s, p) == Len(s) >= Len(p) /\ SubSeq(s, 1, Len(p)) = p

EndsWith(s, p) == Len(s) >= Len(p) /\ SubSeq(s, Len(s) - Len(p) + 1, Len(s)) = p

RECURSIVE LStripSpace(_)
LStripSpace(s) ==
    IF s # << >> /\ IsSpace(Head(s)) THEN LStripSpace(Tail(s)) ELSE s

RECURSIVE RStripSpace(_)
RStripSpace(s) ==
    IF s # << >> /\ IsSpace(s[Len(s)])
    THEN RStripSpace(SubSeq(s, 1, Len(s) - 1))
    ELSE s

\* str.strip()
Strip(s) == RStripSpace(LStripSpace(s))

\* str.lstrip(c) for a one-character argument
RECURSIVE LStripChar(_, _)
LStripChar(s, c) ==
    IF s # << >> /\ Head(s) = c THEN LStripChar(Tail(s), c) ELSE s

\* str.rstrip(c) for a one-character argument
RECURSIVE RStripChar(_, _)
RStripChar(s, c) ==
    IF s # << >> /\ s[Len(s)] = c
    THEN RStripChar(SubSeq(s, 1, Len(s) - 1), c)
    ELSE s

\* s < t for two str values (lexicographic by code point)
RECURSIVE StrLess(_, _)
StrLess(s, t) ==
    IF t = << >> THEN FALSE
    ELSE IF s = << >> THEN TRUE
    ELSE IF Head(s) # Head(t) THEN Ord(Head(s)) < Ord(Head(t))
    ELSE StrLess(Tail(s), Tail(t))

\* sorted(S) for a set of str values
RECURSIVE Sorted(_)
Sorted(S) ==
    IF S = {} THEN << >>
    ELSE LET m == CHOOSE x \in S : \A y \in S \ {x} : StrLess(x, y)
         IN  << m >> \o Sorted(S \ {m})

(***************************************************************************)
(* Values: a Python value is None, the float NaN (a missing cell of        *)
(* read_csv) or a str.                                                     *)
(***************************************************************************)
None == [kind |-> "None", s |-> << >>]
NaN == [kind |-> "NaN", s |-> << >>]
Str(x) == [kind |-> "str", s |-> x]

txt_nan == << "n", "a", "n" >>
txt_None == << "N", "o", "n", "e" >>
txt_http == << "h", "t", "t", "p", ":", "/", "/" >>
txt_https == << "h", "t", "t", "p", "s", ":", "/", "/" >>
txt_https_colon == << "h", "t", "t", "p", "s", ":" >>

\* str(v)
PyStr(v) ==
    CASE v.kind = "str" -> v.s
      [] v.kind = "NaN" -> txt_nan
      [] OTHER -> txt_None

(***************************************************************************)
(* Settings (main.py 12-13).                                               *)
(***************************************************************************)
DEFAULT_CSV_NAME == << "m", "o", "v", "i", "e", "s", ".", "c", "s", "v" >>

BASE_URL ==
    txt_https \o << "i", "t", "h", "i", "n", "k", "e", "r", ".", "r", "u" >>

(***************************************************************************)
(* _abs_url (main.py 16-29).                                               *)
(***************************************************************************)
\* base.rstrip("/") (lines 28-29)
BaseNoSlash(base) == RStripChar(base, "/")

\* variant of UrlText: the text is not stripped
UrlNoStrip(url) == PyStr(url)

\* u = str(url).strip() (line 20)
UrlText(url) == Strip(PyStr(url))

_abs_url(url, base) ==
    IF url.kind = "None" THEN << >>
    ELSE LET u == UrlText(url)
         IN  IF u = << >> \/ Lower(u) = txt_nan THEN << >>
             ELSE IF StartsWith(u, txt_http) \/ StartsWith(u, txt_https) THEN u
             ELSE IF StartsWith(u, << "/", "/" >>) THEN txt_https_colon \o u
             ELSE IF StartsWith(u, << "/" >>) THEN BaseNoSlash(base) \o u
             ELSE BaseNoSlash(base) \o << "/" >> \o LStripChar(u, "/")


(***************************************************************************)
(* Files and tables.  A directory is a function from the names of the      *)
(* files present to their parsed content (the DataFrame read_csv gives): a *)
(* set of column names and a sequence of rows.  A row gives every required *)
(* column a value; the value of a column the table lacks is never read.    *)
(***************************************************************************)
col_page_url == << "p", "a", "g", "e", "_", "u", "r", "l" >>
col_image_url == << "i", "m", "a", "g", "e", "_", "u", "r", "l" >>
col_movie_title == << "m", "o", "v", "i", "e", "_", "t", "i", "t", "l", "e" >>
col_description == << "d", "e", "s", "c", "r", "i", "p", "t", "i", "o", "n" >>
col_extra == << "e", "x", "t", "r", "a" >>

\* required = {...} (main.py 53)
required == {col_page_url, col_image_url, col_movie_title, col_description}

Row(title, desc, img, page) ==
    [movie_title |-> title, description |-> desc, image_url |-> img, page_url |-> page]

Table(cols, rows) == [cols |-> cols, rows |-> rows]

txt_csv == << ".", "c", "s", "v" >>
txt_dot_txt == << ".", "t", "x", "t" >>
txt_dot_bak == << ".", "b", "a", "k" >>
file_a_csv == << "a" >> \o txt_csv
file_z_csv == << "z" >> \o txt_csv
file_B_csv == << "B" >> \o txt_csv
file_notes_txt == << "n", "o", "t", "e", "s" >> \o txt_dot_txt
file_movies_bak == DEFAULT_CSV_NAME \o txt_dot_bak

(***************************************************************************)
(* _find_csv_path (main.py 32-45).  The result is [ok, path]; ok = FALSE   *)
(* stands for the FileNotFoundError raised at line 41.                     *)
(***************************************************************************)
\* here.glob("*.csv")
Glob(files) == {f \in files : EndsWith(f, txt_csv)}

\* preferred.exists() (line 36)
PreferredExists(files) == DEFAULT_CSV_NAME \in files

\* variant of FirstCsv: the last file of the sorted list
LastCsv(csv_files) == csv_files[Len(csv_files)]

\* csv_files[0] (line 45)
FirstCsv(csv_files) == csv_files[1]

_find_csv_path(files) ==
    IF PreferredExists(files) THEN [ok |-> TRUE, path |-> DEFAULT_CSV_NAME]
    ELSE LET csv_files == Sorted(Glob(files))
         IN  IF csv_files = << >> THEN [ok |-> FALSE, path |-> << >>]
             ELSE [ok |-> TRUE, path |-> FirstCsv(csv_files)]

(***************************************************************************)
(* load_movies, the body under the cache decorator (main.py 49-70).        *)
(***************************************************************************)
\* Series.astype(str) on one cell.  Up to pandas 2 a missing cell becomes
\* the text "nan"; from pandas 3 on it stays missing.  The repository pins
\* no pandas version, so the model carries both (na_as_text).
AsTypeStr(v, na_as_text) ==
    IF v.kind = "NaN" THEN (IF na_as_text THEN Str(txt_nan) ELSE NaN)
    ELSE Str(PyStr(v))

\* Series.fillna("") on one cell
FillNa(v) == IF v.kind = "NaN" THEN Str(<< >>) ELSE v

\* Series.str.strip() on one cell
StrStrip(v) == IF v.kind = "str" THEN Str(Strip(v.s)) ELSE v

\* lines 62-63 for one cell; the result is the text of the cell
TextCell(v, na_as_text) == StrStrip(FillNa(AsTypeStr(v, na_as_text))).s

\* lines 62-65 for one row
NormalizeRow(r, na_as_text) ==
    [movie_title |-> TextCell(r.movie_title, na_as_text),
     description |-> TextCell(r.description, na_as_text),
     page_url    |-> _abs_url(r.page_url, BASE_URL),
     image_url   |-> _abs_url(r.image_url, BASE_URL)]

\* the row mask of line 68
KeepRow(r) == r.movie_title # << >> /\ r.description # << >>

\* missing = required - set(df.columns) (line 54)
Missing(cols) == required \ cols

\* variant of Report: the columns listed in descending order
ReportUnsorted(missing) ==
    LET s == Sorted(missing) IN [i \in 1..Len(s) |-> s[Len(s) + 1 - i]]

\* sorted(missing) in the message of line 57
Report(missing) == Sorted(missing)

NoError == [kind |-> "none", exc |-> "none", missing |-> << >>]

\* the outcome of one run of the body: the exception raised (or "none"), the
\* columns its message lists, the path read and the DataFrame returned
load_movies(dir, na_as_text) ==
    LET loc == _find_csv_path(DOMAIN dir)
    IN  IF ~loc.ok
        THEN [exc |-> "FileNotFoundError", missing |-> << >>, path |-> << >>, df |-> << >>]
        ELSE LET t == dir[loc.path]
                 missing == Missing(t.cols)
                 rows == [i \in 1..Len(t.rows) |-> NormalizeRow(t.rows[i], na_as_text)]
             IN  IF missing # {}
                 THEN [exc |-> "ValueError", missing |-> Report(missing),
                       path |-> loc.path, df |-> << >>]
                 ELSE [exc |-> "none", missing |-> << >>,
                       path |-> loc.path, df |-> SelectSeq(rows, KeepRow)]


(***************************************************************************)
(* DataFrame.sample(n, random_state=seed) (main.py 104): a RandomState is  *)
(* built from the seed and the first n entries of its permutation of the   *)
(* row positions are taken.  The Mersenne twister of numpy is replaced by  *)
(* a small linear congruential generator (16-bit state); the shuffle is    *)
(* numpy's, from the last position down.                                   *)
(***************************************************************************)
RngModulus == 65537

RngNext(x) == (x * 75 + 74) % RngModulus

\* np.random.RandomState(seed)
RandomState(seed) == seed % RngModulus

Swap(p, i, j) == [p EXCEPT ![i] = p[j], ![j] = p[i]]

RECURSIVE Shuffle(_, _, _)
Shuffle(p, i, g) ==
    IF i < 2 THEN p
    ELSE LET g1 == RngNext(g)
             j == 1 + (g1 % i)
         IN  Shuffle(Swap(p, i, j), i - 1, g1)

\* RandomState.permutation(len)
Permutation(len, g) == Shuffle([i \in 1..len |-> i], len, g)

\* df.sample(n=k, random_state=seed): [failed, rows]; failed stands for the
\* ValueError pandas raises for k > len(df) without replacement.  A sampled
\* row keeps its index label in df.
DfSample(frame, k, seed) ==
    IF k > Len(frame) THEN [failed |-> TRUE, rows |-> << >>]
    ELSE LET perm == Permutation(Len(frame), RandomState(seed))
         IN  [failed |-> FALSE,
              rows |-> [t \in 1..k |-> [index |-> perm[t] - 1, row |-> frame[perm[t]]]]]

(***************************************************************************)
(* The widgets and the seed of main (main.py 91-104).                      *)
(***************************************************************************)
SliderMin == 1
SliderMax == 50
SliderDefault == 10
InitialSeed == 42

\* the slider positions the model moves to
SliderStops == {SliderMin, 2, 3, SliderDefault, SliderMax}

Min(a, b) == IF a < b THEN a ELSE b

\* variant of SampleSize: the count is not clamped
SampleSizeUnclamped(count, len) == count

\* sample_n = min(n, len(df)) (line 103)
SampleSize(count, len) == Min(count, len)

\* variant of Advanced: the seed is reset on a refresh
AdvancedReset(seed) == InitialSeed

\* st.session_state.seed += 1 (line 101)
Advanced(seed) == seed + 1

\* one card of the loop of lines 108-130: the texts shown, whether a poster
\* is shown and whether a source link is shown
Card(r) ==
    [title |-> r.movie_title, desc |-> r.description,
     poster |-> Strip(r.image_url) # << >>, link |-> Strip(r.page_url) # << >>]

(***************************************************************************)
(* State.                                                                  *)
(***************************************************************************)
VARIABLES
    dir,            \* the directory of main.py: file name -> table
    na_as_text,     \* the installed pandas renders a missing cell as "nan"
    cache,          \* st.cache_data of load_movies: << >> or << DataFrame >>
    session_state,  \* st.session_state: a function, with "seed" once set
    widgets_shown,  \* the page of the session shows the slider and the button
    pc,             \* position of the render pass ("crashed": df.sample raised)
    n,              \* the slider's value
    refresh,        \* the button's value in this pass
    path,           \* the path load_movies read last
    df,             \* main's df
    message,        \* the st.error / st.warning of this pass
    sample,         \* main's sample
    cards,          \* the cards rendered in this pass
    computes,       \* history: successful runs of load_movies' body
    first,          \* history: << the first DataFrame load_movies returned >>
    seed_at_start,  \* history: session_state when the pass began
    refreshes,      \* history: passes of this session begun by a click of the button
    used_seed,      \* history: << the random_state given to df.sample >>
    memo,           \* history: << one earlier sampling >>
    url_in,         \* argument url of a call of _abs_url
    url_base,       \* argument base of that call
    url_out         \* << its result >>, << >> before it returns

fsVars == << dir, na_as_text >>
passVars == << pc, n, refresh, path, df, message, sample, cards >>
histVars == << computes, first, seed_at_start, refreshes, used_seed, memo >>
urlVars == << url_in, url_base, url_out >>
vars == << fsVars, cache, session_state, widgets_shown, passVars, histVars, urlVars >>

NoState == [k \in {} |-> 0]

HasSeed(ss) == "seed" \in DOMAIN ss

PassOver == pc \in {"idle", "done", "stopped", "crashed"}

(***************************************************************************)
(* Tables of the render-pass specification.                                *)
(***************************************************************************)
S_A == << "A" >>
S_B == << "B" >>
S_C == << "C" >>
S_descA == << "d", "e", "s", "c", "A" >>
S_descC == << "d", "e", "s", "c", "C" >>
S_img_a == << "/", "i", "m", "g", "/", "a" >>
S_img_b == << "/", "i", "m", "g", "/", "b" >>
S_film_a == << "/", "f", "i", "l", "m", "/", "a" >>
S_film_b == << "/", "f", "i", "l", "m", "/", "b" >>

RowA == Row(Str(S_A), Str(S_descA), Str(S_img_a), Str(S_film_a))
RowB == Row(Str(S_B), NaN, Str(S_img_b), Str(S_film_b))
RowC == Row(Str(S_C), Str(S_descC), NaN, NaN)
RowBlank == Row(Str(<< " ", "A", " " >>), Str(<< " " >>), Str(<< "x" >>), NaN)
RowNoTitle == Row(NaN, Str(S_descA), Str(txt_https \o << "x" >>), Str(<< "/", "/", "x" >>))

AllCols == required \cup {col_extra}

T_ABC == Table(AllCols, << RowA, RowB, RowC >>)
T_NoImage == Table(required \ {col_image_url}, << RowA >>)
T_Blank == Table(required, << RowBlank >>)

T_CA == Table(required, << RowC, RowA >>)

MainFiles == {DEFAULT_CSV_NAME, file_a_csv}

\* the contents file f takes: movies.csv the scenario table, a table without
\* image_url or a table of blank rows; a.csv another good table
MainTables(f) == IF f = DEFAULT_CSV_NAME THEN {T_ABC, T_NoImage, T_Blank} ELSE {T_CA}

MainDirs ==
    {d \in UNION {[F -> {T_ABC, T_NoImage, T_Blank, T_CA}] : F \in SUBSET MainFiles} :
        \A f \in DOMAIN d : d[f] \in MainTables(f)}


(***************************************************************************)
(* Initial states.                                                         *)
(***************************************************************************)
\* a fresh session: nothing rendered, no state
FreshSession ==
    /\ session_state = NoState
    /\ widgets_shown = FALSE
    /\ n = SliderDefault
    /\ refresh = FALSE
    /\ path = << >>
    /\ df = << >>
    /\ message = NoError
    /\ sample = << >>
    /\ cards = << >>
    /\ seed_at_start = NoState
    /\ refreshes = 0
    /\ used_seed = << >>

FreshProcess ==
    /\ cache = << >>
    /\ computes = 0
    /\ first = << >>
    /\ memo = << >>

NoUrlCall ==
    /\ url_in = None
    /\ url_base = BASE_URL
    /\ url_out = << >>

Init ==
    /\ dir \in MainDirs
    /\ na_as_text \in BOOLEAN
    /\ pc = "idle"
    /\ FreshProcess
    /\ FreshSession
    /\ NoUrlCall

(***************************************************************************)
(* The user and the file system.                                           *)
(***************************************************************************)
\* a script run begins: the widgets will return count and click in it
BeginPass(count, click) ==
    /\ PassOver
    /\ pc' = "load"
    /\ n' = count
    /\ refresh' = click
    /\ df' = << >>
    /\ message' = NoError
    /\ sample' = << >>
    /\ cards' = << >>
    /\ seed_at_start' = session_state
    /\ used_seed' = << >>
    /\ refreshes' = IF click THEN refreshes + 1 ELSE refreshes
    /\ UNCHANGED << fsVars, cache, session_state, widgets_shown, path,
                    computes, first, memo, urlVars >>

\* the page is opened, or rerun with the widgets as they are
Rerun == BeginPass(IF widgets_shown THEN n ELSE SliderDefault, FALSE)

\* st.slider (line 91) is moved
MoveSlider ==
    \E v \in SliderStops \ {n} : widgets_shown /\ BeginPass(v, FALSE)

\* st.button (line 93) is clicked
ClickRefresh ==
    /\ widgets_shown
    /\ refreshes < MaxRefresh
    /\ BeginPass(n, TRUE)

\* the browser opens a new session of the same process
NewSession ==
    /\ PassOver
    /\ pc # "idle"
    /\ pc' = "idle"
    /\ session_state' = NoState
    /\ widgets_shown' = FALSE
    /\ n' = SliderDefault
    /\ refresh' = FALSE
    /\ path' = << >>
    /\ df' = << >>
    /\ message' = NoError
    /\ sample' = << >>
    /\ cards' = << >>
    /\ seed_at_start' = NoState
    /\ refreshes' = 0
    /\ used_seed' = << >>
    /\ UNCHANGED << fsVars, cache, computes, first, memo, urlVars >>

\* a file of the directory is written or removed; only load_movies reads
\* the directory, in one step, so changes during a pass add no behaviour
WriteFile ==
    \E f \in MainFiles :
      \E t \in MainTables(f) :
        /\ PassOver
        /\ dir' = [g \in DOMAIN dir \cup {f} |-> IF g = f THEN t ELSE dir[g]]
        /\ dir' # dir
        /\ UNCHANGED << na_as_text, cache, session_state, widgets_shown,
                        passVars, histVars, urlVars >>

DeleteFile ==
    \E f \in DOMAIN dir :
        /\ PassOver
        /\ dir' = [g \in DOMAIN dir \ {f} |-> dir[g]]
        /\ UNCHANGED << na_as_text, cache, session_state, widgets_shown,
                        passVars, histVars, urlVars >>

(***************************************************************************)
(* main (main.py 73-133), one action per step of the pass.                 *)
(***************************************************************************)
\* variant of CacheLookup: the cache is never hit
CacheLookupMiss(c) == << >>

\* the entry st.cache_data (line 48) holds for load_movies() when called
CacheLookup(c) == c

\* lines 79-83: df = load_movies() through the cache; an exception of the
\* body is not cached, is shown by st.error, and st.stop() ends the pass
Load ==
    /\ pc = "load"
    /\ LET hit == CacheLookup(cache)
           out == load_movies(dir, na_as_text)
       IN  IF hit # << >>
           THEN /\ df' = hit[1]
                /\ pc' = "check_empty"
                /\ UNCHANGED << cache, path, computes, first, message, widgets_shown >>
           ELSE /\ path' = out.path
                /\ IF out.exc = "none"
                   THEN /\ cache' = << out.df >>
                        /\ df' = out.df
                        /\ computes' = computes + 1
                        /\ first' = IF first = << >> THEN << out.df >> ELSE first
                        /\ pc' = "check_empty"
                        /\ UNCHANGED << message, widgets_shown >>
                   ELSE /\ message' = [kind |-> "error", exc |-> out.exc,
                                       missing |-> out.missing]
                        /\ pc' = "stopped"
                        /\ widgets_shown' = FALSE
                        /\ UNCHANGED << cache, df, computes, first >>
    /\ UNCHANGED << fsVars, session_state, n, refresh, sample, cards,
                    seed_at_start, refreshes, used_seed, memo, urlVars >>

\* variant of AfterWarning: the pass goes on after the warning
AfterWarningGoOn == "widgets"

\* where the pass stands after st.warning and st.stop() (lines 86-87)
AfterWarning == "stopped"

\* lines 85-87
CheckEmpty ==
    /\ pc = "check_empty"
    /\ IF df = << >>
       THEN /\ message' = [kind |-> "warning", exc |-> "none", missing |-> << >>]
            /\ pc' = AfterWarning
            /\ widgets_shown' = FALSE
       ELSE /\ pc' = "widgets"
            /\ UNCHANGED << message, widgets_shown >>
    /\ UNCHANGED << fsVars, cache, session_state, n, refresh, path, df, sample,
                    cards, histVars, urlVars >>

\* lines 89-95: the slider and the button are drawn and return n and refresh
Widgets ==
    /\ pc = "widgets"
    /\ widgets_shown' = TRUE
    /\ pc' = "seed_init"
    /\ UNCHANGED << fsVars, cache, session_state, n, refresh, path, df, message,
                    sample, cards, histVars, urlVars >>

\* lines 98-99
InitSeed ==
    /\ pc = "seed_init"
    /\ session_state' = IF HasSeed(session_state) THEN session_state
                        ELSE ("seed" :> InitialSeed)
    /\ pc' = "advance"
    /\ UNCHANGED << fsVars, cache, widgets_shown, n, refresh, path, df, message,
                    sample, cards, histVars, urlVars >>

\* lines 100-101
Advance ==
    /\ pc = "advance"
    /\ IF refresh
       THEN session_state' = [session_state EXCEPT !["seed"] = Advanced(@)]
       ELSE UNCHANGED session_state
    /\ pc' = "sample"
    /\ UNCHANGED << fsVars, cache, widgets_shown, n, refresh, path, df, message,
                    sample, cards, histVars, urlVars >>

\* variant of SampleSeed: the seed the next refresh would give, in the pass
\* of a refresh
SeedAhead == session_state["seed"] + (IF refresh THEN 1 ELSE 0)

\* variant of SampleSeed: the seed as it was before this pass advanced it
SeedBehind == session_state["seed"] - (IF refresh THEN 1 ELSE 0)

\* the random_state of line 104
SampleSeed == session_state["seed"]

\* lines 103-104; memo keeps this sampling or the one it held
Sample ==
    /\ pc = "sample"
    /\ LET sample_n == SampleSize(n, Len(df))
           got == DfSample(df, sample_n, SampleSeed)
           this == [df |-> df, n |-> n, seed |-> session_state["seed"],
                    refresh |-> refresh, sample |-> got.rows]
       IN  /\ used_seed' = << SampleSeed >>
           /\ IF got.failed
              THEN /\ pc' = "crashed"
                   /\ UNCHANGED << sample, memo >>
              ELSE /\ pc' = "render"
                   /\ sample' = got.rows
                   /\ memo' \in {memo, << this >>}
    /\ UNCHANGED << fsVars, cache, session_state, widgets_shown, n, refresh, path,
                    df, message, cards, computes, first, seed_at_start, refreshes,
                    urlVars >>

\* one iteration of the loop of lines 108-130
RenderCard ==
    /\ pc = "render"
    /\ Len(cards) < Len(sample)
    /\ cards' = Append(cards, Card(sample[Len(cards) + 1].row))
    /\ UNCHANGED << fsVars, cache, session_state, widgets_shown, pc, n, refresh,
                    path, df, message, sample, histVars, urlVars >>

\* lines 132-133: the pass ends
Finish ==
    /\ pc = "render"
    /\ Len(cards) = Len(sample)
    /\ pc' = "done"
    /\ UNCHANGED << fsVars, cache, session_state, widgets_shown, n, refresh, path,
                    df, message, sample, cards, histVars, urlVars >>

Next ==
    \/ Rerun
    \/ MoveSlider
    \/ ClickRefresh
    \/ NewSession
    \/ WriteFile
    \/ DeleteFile
    \/ Load
    \/ CheckEmpty
    \/ Widgets
    \/ InitSeed
    \/ Advance
    \/ Sample
    \/ RenderCard
    \/ Finish

Spec == Init /\ [][Next]_vars


(***************************************************************************)
(* Specification of _abs_url alone: one call on an input put together from *)
(* up to MaxFrags fragments, with a base that ends in 0, 1 or 2 slashes.   *)
(***************************************************************************)
Fragments ==
    { << " " >>, << "/" >>, << "x" >>, txt_nan, << "N", "a", "N" >>,
      txt_http, txt_https, << "H", "T", "T", "P", ":", "/", "/" >> }

RECURSIVE Concats(_)
Concats(k) ==
    IF k = 0 THEN {<< >>}
    ELSE LET shorter == Concats(k - 1)
         IN  shorter \cup {s \o f : s \in shorter, f \in Fragments}

UrlInputs == {None, NaN} \cup {Str(s) : s \in Concats(MaxFrags)}

txt_base == txt_https \o << "b" >>

UrlBases == {txt_base, txt_base \o << "/" >>, txt_base \o << "/", "/" >>}

IdleProcess ==
    /\ dir = NoState
    /\ na_as_text = TRUE
    /\ pc = "idle"
    /\ FreshProcess
    /\ FreshSession

InitUrl ==
    /\ IdleProcess
    /\ url_in \in UrlInputs
    /\ url_base \in UrlBases
    /\ url_out = << >>

CallAbsUrl ==
    /\ url_out = << >>
    /\ url_out' = << _abs_url(url_in, url_base) >>
    /\ UNCHANGED << fsVars, cache, session_state, widgets_shown, passVars,
                    histVars, url_in, url_base >>

NextUrl == CallAbsUrl

SpecUrl == InitUrl /\ [][NextUrl]_vars

(***************************************************************************)
(* Specifications of the first call of load_movies: the pass of a fresh    *)
(* process stands at line 80.  SpecLoad varies the table of movies.csv,    *)
(* SpecFind the files of the directory.                                    *)
(***************************************************************************)
AtFirstLoad ==
    /\ pc = "load"
    /\ FreshProcess
    /\ FreshSession
    /\ NoUrlCall

RECURSIVE SeqsUpTo(_, _)
SeqsUpTo(S, k) ==
    IF k = 0 THEN {<< >>}
    ELSE LET shorter == SeqsUpTo(S, k - 1)
         IN  shorter \cup {Append(q, x) : q \in shorter, x \in S}

LoadRows == {RowA, RowB, RowC, RowBlank, RowNoTitle}

LoadTables ==
    {Table(cols, rows) : cols \in SUBSET AllCols, rows \in SeqsUpTo(LoadRows, MaxRows)}

InitLoad ==
    /\ AtFirstLoad
    /\ na_as_text \in BOOLEAN
    /\ \E t \in LoadTables : dir = (DEFAULT_CSV_NAME :> t)

NextLoad == Load

SpecLoad == InitLoad /\ [][NextLoad]_vars

FindFiles ==
    {DEFAULT_CSV_NAME, file_a_csv, file_z_csv, file_B_csv, file_notes_txt,
     file_movies_bak}

\* every file holds a table that names it: one row titled with the file name
FileTable(f) == Table(required, << Row(Str(f), Str(S_descA), NaN, NaN) >>)

InitFind ==
    /\ AtFirstLoad
    /\ na_as_text \in BOOLEAN
    /\ \E F \in SUBSET FindFiles : dir = [f \in F |-> FileTable(f)]

NextFind == Load

SpecFind == InitFind /\ [][NextFind]_vars


(***************************************************************************)
(* Properties of _abs_url (SpecUrl).                                       *)
(***************************************************************************)
\* the case table of the specification, read on the input as given (and on
\* the base without its trailing slashes in both relative cases)
StatedUrl(raw, base) ==
    LET t == PyStr(raw)
    IN  IF raw.kind # "str" \/ t = << >> \/ t = txt_nan THEN << >>
        ELSE IF StartsWith(t, txt_http) \/ StartsWith(t, txt_https) THEN t
        ELSE IF StartsWith(t, << "/", "/" >>) THEN txt_https_colon \o t
        ELSE IF StartsWith(t, << "/" >>) THEN RStripChar(base, "/") \o t
        ELSE RStripChar(base, "/") \o << "/" >> \o LStripChar(t, "/")

\* C5 as stated: the result of _abs_url(raw, base) is the case table applied
\* to raw itself: "", raw unchanged, https: + raw, stripped base + raw, or
\* base + "/" + raw without leading slashes.
C5_AsStated ==
    url_out # << >> => url_out[1] = StatedUrl(url_in, url_base)

\* C5 amended: with u the input trimmed of surrounding whitespace and b the
\* base without its trailing slashes, the result is "" for None, for empty u
\* and for u equal to "nan" in any letter case; u for u starting with http://
\* or https://; https: + u for u starting with //; b + u for u starting with
\* one /; and b + "/" + u otherwise.
C5_AbsUrlCases ==
    url_out # << >> =>
        LET u == Strip(PyStr(url_in))
            b == RStripChar(url_base, "/")
            r == url_out[1]
            empty == url_in.kind = "None" \/ u = << >> \/ Lower(u) = txt_nan
            absolute == StartsWith(u, txt_http) \/ StartsWith(u, txt_https)
            protocol == StartsWith(u, << "/", "/" >>)
            rooted == StartsWith(u, << "/" >>)
        IN  /\ empty => r = << >>
            /\ ~empty /\ absolute => r = u
            /\ ~empty /\ ~absolute /\ protocol => r = txt_https_colon \o u
            /\ ~empty /\ ~absolute /\ ~protocol /\ rooted => r = b \o u
            /\ ~empty /\ ~absolute /\ ~rooted => r = b \o << "/" >> \o u

\* a padded bare relative path was resolved against a base ending in a slash
C5_Witness ==
    /\ url_in = Str(<< " ", "x", " " >>)
    /\ url_base = txt_base \o << "/" >>
    /\ url_out = << txt_base \o << "/", "x" >> >>

(***************************************************************************)
(* Properties of the first load_movies() (SpecLoad, SpecFind).             *)
(***************************************************************************)
InputTable == dir[DEFAULT_CSV_NAME]

\* a cell that is missing, empty or whitespace-only
Blank(v) == v.kind # "str" \/ Strip(v.s) = << >>

FilledRow(r) == ~Blank(r.movie_title) /\ ~Blank(r.description)

\* C1: after load_movies() succeeds every record has a non-empty trimmed
\* title and description, the records are exactly the input rows whose title
\* and description are neither missing nor blank, and the input [A, B with
\* an empty description, C] gives two records, none of them B.
C1_BlankRowsDropped ==
    pc = "check_empty" =>
        /\ \A i \in 1..Len(df) :
              /\ df[i].movie_title # << >> /\ Strip(df[i].movie_title) = df[i].movie_title
              /\ df[i].description # << >> /\ Strip(df[i].description) = df[i].description
        /\ Len(df) = Len(SelectSeq(InputTable.rows, FilledRow))
        /\ InputTable.rows = << RowA, RowB, RowC >> =>
              Len(df) = 2 /\ \A i \in 1..Len(df) : df[i].movie_title # S_B

\* the columns of the contract that the input table lacks
Lacking ==
    {c \in {col_page_url, col_image_url, col_movie_title, col_description} :
        c \notin InputTable.cols}

\* q lists the elements of S once each, in ascending order
SortedListing(q, S) ==
    /\ Len(q) = Cardinality(S)
    /\ {q[i] : i \in 1..Len(q)} = S
    /\ \A i \in 1..Len(q) - 1 : StrLess(q[i], q[i + 1])

\* C6: a table lacking required columns makes load_movies() fail with the
\* schema error listing exactly the lacking columns in sorted order (just
\* image_url when only that is lacking) and no Dataset is produced; a table
\* with the four columns, in any order and with extra ones, raises none.
C6_SchemaError ==
    pc # "load" =>
        /\ Lacking # {} =>
              /\ pc = "stopped"
              /\ message.kind = "error" /\ message.exc = "ValueError"
              /\ SortedListing(message.missing, Lacking)
              /\ cache = << >> /\ df = << >>
        /\ Lacking = {col_image_url} => message.missing = << col_image_url >>
        /\ Lacking = {} => pc = "check_empty" /\ message = NoError /\ cache = << df >>

\* the schema error listed two lacking columns
C6_Witness ==
    /\ pc = "stopped"
    /\ col_extra \in InputTable.cols
    /\ message.missing = << col_description, col_page_url >>

\* the files of the directory matching *.csv
CsvFiles == {f \in DOMAIN dir : Len(f) >= 4 /\ SubSeq(f, Len(f) - 3, Len(f)) = txt_csv}

\* C7: _find_csv_path() returns movies.csv whenever it exists, otherwise the
\* lexicographically smallest *.csv file, and raises the not-found error
\* exactly when the directory holds no *.csv file.
C7_FindCsvPath ==
    pc # "load" =>
        /\ DEFAULT_CSV_NAME \in DOMAIN dir => path = DEFAULT_CSV_NAME
        /\ DEFAULT_CSV_NAME \notin DOMAIN dir /\ CsvFiles # {} =>
              /\ path \in CsvFiles
              /\ \A g \in CsvFiles \ {path} : StrLess(path, g)
        /\ (message.exc = "FileNotFoundError") <=> (CsvFiles = {})
        /\ CsvFiles # {} => pc = "check_empty" /\ df[1].movie_title = path

\* without movies.csv, B.csv was chosen before a.csv and z.csv
C7_Witness ==
    /\ pc = "check_empty"
    /\ {file_a_csv, file_z_csv, file_B_csv, file_movies_bak} \subseteq DOMAIN dir
    /\ path = file_B_csv


(***************************************************************************)
(* Properties of the render pass (Spec).                                   *)
(***************************************************************************)
Sampled == pc \in {"render", "done"}

BeforeAdvance == pc \in {"load", "check_empty", "widgets", "seed_init", "advance"}

\* C2: in every pass that reaches sampling the count is in 1..50, the
\* Dataset is non-empty, the sample holds exactly min(n, size) records with
\* pairwise distinct Dataset indices, each the record at its index, and
\* df.sample never raises, also for n > size.
C2_SampleSize ==
    /\ pc # "crashed"
    /\ Sampled =>
          /\ n \in SliderMin..SliderMax
          /\ df # << >>
          /\ Len(sample) = (IF n < Len(df) THEN n ELSE Len(df))
          /\ \A i \in 1..Len(sample) :
                /\ sample[i].index \in 0..Len(df) - 1
                /\ sample[i].row = df[sample[i].index + 1]
          /\ \A i, j \in 1..Len(sample) : i # j => sample[i].index # sample[j].index

\* a pass asked for more records than the Dataset has and got them all
C2_Witness ==
    /\ pc = "done"
    /\ n = SliderMax
    /\ Len(df) >= 2
    /\ Len(sample) = Len(df)
    /\ Len(cards) = Len(df)

\* C3: a pass that samples with the Dataset, the count and the seed value of
\* any earlier sampling (memo) draws the identical sample, same records in
\* the same order.
C3_Deterministic ==
    (/\ Sampled
     /\ memo # << >>
     /\ memo[1].df = df
     /\ memo[1].n = n
     /\ memo[1].seed = session_state["seed"])
        => memo[1].sample = sample

\* the pass of a refresh and a later pass without refresh, at the same seed
\* and count, drew the same two or more records
C3_Witness ==
    /\ pc = "done"
    /\ memo # << >>
    /\ memo[1].refresh /\ ~refresh
    /\ memo[1].df = df /\ memo[1].n = n /\ memo[1].seed = session_state["seed"]
    /\ Len(sample) >= 2
    /\ memo[1].sample = sample

\* C4: the seed of a session is set once, to 42, and then only a pass with
\* refresh true changes it, by +1: it is 42 plus the number of passes of the
\* session run with refresh true (the running pass counted once it has
\* advanced), it never decreases or disappears during the session, and a
\* pass with refresh false leaves it as it was.
C4_SeedCounts ==
    /\ [](/\ HasSeed(session_state) =>
                session_state["seed"] = InitialSeed + refreshes
                    - (IF refresh /\ BeforeAdvance THEN 1 ELSE 0)
          /\ ~HasSeed(session_state) => refreshes = 0)
    /\ [][pc' # "idle" =>
            /\ HasSeed(session_state) => HasSeed(session_state')
            /\ ~HasSeed(session_state) /\ HasSeed(session_state') =>
                  session_state'["seed"] = InitialSeed
            /\ HasSeed(session_state) /\ session_state' # session_state =>
                  /\ session_state'["seed"] = session_state["seed"] + 1
                  /\ refresh /\ pc = "advance"]_vars

\* after two refreshes a pass that only moved the slider ended at seed 44
C4_Witness ==
    /\ pc = "done"
    /\ ~refresh
    /\ n # SliderDefault
    /\ refreshes = 2
    /\ session_state = ("seed" :> 44)
    /\ seed_at_start = session_state

\* C8: a pass whose load fails or whose Dataset is empty shows a message and
\* halts: it computes no sample, renders no card and leaves the seed state
\* as it found it; a pass goes past the emptiness check, and renders cards,
\* only with a loaded non-empty Dataset and no message.
C8_HaltOnFailure ==
    /\ message.kind # "none" <=> pc = "stopped"
    /\ pc = "stopped" =>
          /\ sample = << >>
          /\ cards = << >>
          /\ used_seed = << >>
          /\ session_state = seed_at_start
          /\ message.kind = "error" \/ (message.kind = "warning" /\ cache = << << >> >>)
    /\ pc \in {"widgets", "seed_init", "advance", "sample", "render", "done"} =>
          df # << >> /\ cache = << df >>
    /\ cards # << >> => pc \in {"render", "done"}

\* a pass halted with the warning of an empty Dataset
C8_Witness ==
    /\ pc = "stopped"
    /\ message.kind = "warning"
    /\ df = << >>
    /\ DEFAULT_CSV_NAME \in DOMAIN dir

\* C9: the body of load_movies runs to success at most once per process;
\* from then on the cache holds the first Dataset unmodified and every pass
\* gets a Dataset equal to it, whatever the directory holds by then.
C9_LoadedOnce ==
    /\ computes <= 1
    /\ (computes = 0) <=> (cache = << >>)
    /\ cache = first
    /\ pc \notin {"idle", "load", "stopped"} => first # << >> /\ df = first[1]

\* a pass of a later session got the first Dataset although the directory
\* no longer holds any csv file
C9_Witness ==
    /\ pc = "done"
    /\ computes = 1
    /\ df = first[1]
    /\ DOMAIN dir = {}
    /\ memo # << >> /\ memo[1].refresh
    /\ refreshes = 0

\* C10: once a pass has sampled, the sample is the one drawn with the
\* session's seed as it stands, which is the seed the pass began with (42 if
\* it began with none) plus one if refresh is true, and the cards rendered
\* are those of that sample, in its order.
C10_OneSeedPerPass ==
    Sampled =>
        /\ used_seed = << session_state["seed"] >>
        /\ session_state["seed"] =
              (IF HasSeed(seed_at_start) THEN seed_at_start["seed"] ELSE InitialSeed)
                  + (IF refresh THEN 1 ELSE 0)
        /\ sample = DfSample(df, Len(sample), session_state["seed"]).rows
        /\ Len(cards) <= Len(sample)
        /\ \A i \in 1..Len(cards) :
              /\ cards[i].title = sample[i].row.movie_title
              /\ cards[i].desc = sample[i].row.description

\* the pass of a refresh rendered the sample of the advanced seed
C10_Witness ==
    /\ pc = "done"
    /\ refresh
    /\ seed_at_start = ("seed" :> 42)
    /\ used_seed = << 43 >>
    /\ Len(cards) >= 2

=============================================================================
